---- MODULE Spec2Model ----
(***************************************************************************)
(* Request Assembly of pactum: requestProcessor.process and its helpers    *)
(* (src/src/helpers/requestProcessor.js), modelled as a state machine.     *)
(*                                                                         *)
(* A JavaScript string is a sequence of one-character strings, so that     *)
(* startsWith, replace and url.parse are computed, not assumed.  A         *)
(* JavaScript value is a record tagged with its typeof.                    *)
(***************************************************************************)
EXTENDS Integers, Sequences, FiniteSets, TLC

VARIABLES
  config,    \* config.request: baseUrl, headers, followRedirects, timeout
  spec,      \* the request as the builder handed it to process (kept for reference)
  request,   \* the request object, mutated in place by process
  lastSet,   \* which of the fields data / body the builder assigned last
  raised,    \* the error the last call of process threw, "none" if it returned
  runs,      \* how many times process has been applied to the request
  headersObj,\* which object request.headers refers to: "none", "spec", "new", "form", "config"
  retry      \* the Retry Controller: its state, policy, counters and responses

vars == <<config, spec, request, lastSet, raised, runs, headersObj, retry>>

(***************************************************************************)
(* Bounds.                                                                 *)
(***************************************************************************)
MaxRuns == 2        \* process is applied at most this many times to one request
MaxTimeout == 2     \* explicit timeouts range over 0..MaxTimeout milliseconds
MaxCount == 3       \* retry policies have a count of 0..MaxCount
MaxDelay == 2       \* retry policies have a delay of 0..MaxDelay units of time

DefaultTimeout == 3000

(***************************************************************************)
(* JavaScript values.                                                      *)
(***************************************************************************)
Undefined == [t |-> "undefined"]
Null == [t |-> "null"]
Num(n) == [t |-> "number", n |-> n]
Bool(b) == [t |-> "boolean", b |-> b]
Str(s) == [t |-> "string", s |-> s]
Obj(o) == [t |-> "object", o |-> o]

TypeOf(v) == IF v.t = "null" THEN "object" ELSE v.t

Truthy(v) ==
  CASE v.t = "undefined" -> FALSE
    [] v.t = "null" -> FALSE
    [] v.t = "number" -> v.n # 0
    [] v.t = "boolean" -> v.b
    [] v.t = "string" -> v.s # <<>>
    [] OTHER -> TRUE

Digit(d) == <<"0", "1", "2", "3", "4", "5", "6", "7", "8", "9">>[d + 1]

RECURSIVE NumToString(_)
NumToString(n) ==
  IF n < 10 THEN <<Digit(n)>> ELSE NumToString(n \div 10) \o <<Digit(n % 10)>>

\* Number.prototype.toString / Boolean.prototype.toString
toString(v) ==
  CASE v.t = "number" -> Str(NumToString(v.n))
    [] v.t = "boolean" -> Str(IF v.b THEN <<"t", "r", "u", "e">> ELSE <<"f", "a", "l", "s", "e">>)
    [] OTHER -> v

(***************************************************************************)
(* Strings.                                                                *)
(***************************************************************************)
StartsWith(s, p) == Len(s) >= Len(p) /\ SubSeq(s, 1, Len(p)) = p

\* the first position at which p occurs in s, 0 if it does not occur
IndexOf(s, p) ==
  LET hits == {i \in 1..(Len(s) - Len(p) + 1) : SubSeq(s, i, i + Len(p) - 1) = p}
  IN IF hits = {} THEN 0 ELSE CHOOSE i \in hits : \A j \in hits : i <= j

ReplaceAll(s, p, r) ==
  LET RECURSIVE go(_)
      go(u) == LET i == IndexOf(u, p)
               IN IF i = 0 THEN u
                  ELSE SubSeq(u, 1, i - 1) \o r \o go(SubSeq(u, i + Len(p), Len(u)))
  IN go(s)

\* a replace that appends the value when the pattern does not occur
ReplaceOrAppend(s, p, r) ==
  LET i == IndexOf(s, p)
  IN IF i = 0 THEN s \o r ELSE SubSeq(s, 1, i - 1) \o r \o SubSeq(s, i + Len(p), Len(s))

\* String.prototype.replace with a string pattern: the first occurrence only
Replace(s, p, r) ==
  LET i == IndexOf(s, p)
  IN IF i = 0 THEN s ELSE SubSeq(s, 1, i - 1) \o r \o SubSeq(s, i + Len(p), Len(s))

HTTP == <<"h", "t", "t", "p">>
NULLSTR == <<"n", "u", "l", "l">>

\* a template literal renders null as "null"
Interpolate(v) == IF v.t = "string" THEN v.s ELSE NULLSTR

(***************************************************************************)
(* url.parse (Node's legacy parser), for the fields process reads.         *)
(***************************************************************************)
SchemeChars ==
  {"a", "b", "h", "p", "s", "t", "f", "x", "H", "T", "P", "0", "1", "2", "3", "5", "+", "-", "."}
HostEnd == {"/", "?", "#", "{", "}"}
Lower(c) == CASE c = "H" -> "h" [] c = "T" -> "t" [] c = "P" -> "p" [] OTHER -> c
LowerStr(s) == [i \in 1..Len(s) |-> Lower(s[i])]
SlashedProtocol == {<<"h", "t", "t", "p", ":">>, <<"h", "t", "t", "p", "s", ":">>, <<"f", "t", "p", ":">>}

\* the length of the protocol with its colon, 0 if the string has none
ProtoLen(s) ==
  LET c == IndexOf(s, <<":">>)
  IN IF c > 1 /\ \A i \in 1..(c - 1) : s[i] \in SchemeChars THEN c ELSE 0

\* the first position of s at or after from holding a character of the set, Len(s)+1 if none
FirstOf(s, from, set) ==
  LET hits == {i \in from..Len(s) : s[i] \in set}
  IN IF hits = {} THEN Len(s) + 1 ELSE CHOOSE i \in hits : \A j \in hits : i <= j

\* '{' and '}' are among the characters the parser escapes
AutoEscape(s) ==
  ReplaceAll(ReplaceAll(s, <<"{">>, <<"%", "7", "B">>), <<"}">>, <<"%", "7", "D">>)

UrlParse(s) ==
  LET pl == ProtoLen(s)
      \* a path that starts with one slash and has no protocol is taken as it is
      simple == pl = 0 /\ IndexOf(s, <<"#">>) = 0 /\ Len(s) >= 1 /\ s[1] = "/"
                /\ ~(Len(s) >= 3 /\ s[2] = "/" /\ s[3] = "/")
      proto == LowerStr(SubSeq(s, 1, pl))
      rest0 == SubSeq(s, pl + 1, Len(s))
      slashes == pl > 0 /\ StartsWith(rest0, <<"/", "/">>)
      rest1 == IF slashes THEN SubSeq(rest0, 3, Len(rest0)) ELSE rest0
      hasHost == slashes \/ (pl > 0 /\ proto \notin SlashedProtocol)
      he == FirstOf(rest1, 1, HostEnd)
      h0 == IF hasHost THEN LowerStr(SubSeq(rest1, 1, he - 1)) ELSE <<>>
      \* a colon with no port after it is not part of the host
      host == IF h0 # <<>> /\ h0[Len(h0)] = ":" THEN SubSeq(h0, 1, Len(h0) - 1) ELSE h0
      rest2 == AutoEscape(IF hasHost THEN SubSeq(rest1, he, Len(rest1)) ELSE rest1)
      pe == FirstOf(rest2, 1, {"?", "#"})
      p0 == SubSeq(rest2, 1, pe - 1)
      pathname == IF p0 = <<>> /\ proto \in SlashedProtocol /\ host # <<>> THEN <<"/">> ELSE p0
  IN IF simple
       THEN [protocol |-> Null, host |-> Null,
             pathname |-> Str(SubSeq(s, 1, FirstOf(s, 1, {"?"}) - 1))]
       ELSE [protocol |-> IF pl > 0 THEN Str(proto) ELSE Null,
             host |-> IF hasHost /\ host # <<>> THEN Str(host) ELSE Null,
             pathname |-> IF pathname = <<>> THEN Null ELSE Str(pathname)]

(***************************************************************************)
(* Collaborators of process that live outside requestProcessor.js.         *)
(***************************************************************************)
TEMPLATE == "@DATA:TEMPLATE@"
OVERRIDES == "@OVERRIDES@"

\* the template store, as loaded before the requests are made
Templates ==
  [n \in {"User:New"} |-> [k \in {"Name", "Age"} |-> IF k = "Name" THEN Str(<<"J", "o", "n">>) ELSE Num(26)]]

IsTemplateRef(v) ==
  v.t = "object" /\ "o" \in DOMAIN v /\ TEMPLATE \in DOMAIN v.o /\ v.o[TEMPLATE] \in DOMAIN Templates

\* a resolution in which the template's own values win over the overrides
ResolveDataTemplateFirst(v) ==
  IF IsTemplateRef(v)
    THEN LET tpl == Templates[v.o[TEMPLATE]]
             ov == IF OVERRIDES \in DOMAIN v.o THEN v.o[OVERRIDES] ELSE [k \in {} |-> Undefined]
         IN Obj([k \in DOMAIN tpl \cup DOMAIN ov |-> IF k \in DOMAIN tpl THEN tpl[k] ELSE ov[k]])
    ELSE v

\* a template reference becomes the template's value with the overrides on top
ResolveData(v) ==
  IF IsTemplateRef(v)
    THEN LET tpl == Templates[v.o[TEMPLATE]]
             ov == IF OVERRIDES \in DOMAIN v.o THEN v.o[OVERRIDES] ELSE [k \in {} |-> Undefined]
         IN Obj([k \in DOMAIN tpl \cup DOMAIN ov |-> IF k \in DOMAIN ov THEN ov[k] ELSE tpl[k]])
    ELSE v

processData(r) == [r EXCEPT !.body = ResolveData(r.body), !.data = ResolveData(r.data)]

\* helper.getPlainQuery: "k=v" pairs joined by "&", empty when there are none
RECURSIVE JoinQuery(_)
JoinQuery(ps) ==
  IF ps = <<>> THEN <<>>
  ELSE ps[1][1] \o <<"=">> \o ps[1][2]
       \o (IF Len(ps) > 1 THEN <<"&">> \o JoinQuery(Tail(ps)) ELSE <<>>)

getPlainQuery(q) == IF q.t = "object" THEN JoinQuery(q.o) ELSE <<>>

\* a FormData object of the form-data package, identified by its boundary
FormData(b) == [t |-> "object", boundary |-> b]
getBuffer(fd) == [t |-> "object", buffer |-> fd.boundary]
getHeaders(fd) == [k \in {"content-type"} |-> "multipart/form-data; boundary=" \o fd.boundary]

\* property names every object inherits from Object.prototype
ObjectPrototypeKeys == {"constructor", "toString", "valueOf", "hasOwnProperty"}

\* the JavaScript operator `prop in object`: own and inherited properties
In(prop, o) == prop \in DOMAIN o \/ prop \in ObjectPrototypeKeys

NoHeaders == [k \in {} |-> ""]

(***************************************************************************)
(* requestProcessor.js                                                     *)
(***************************************************************************)
setBaseUrl(r) ==
  LET u == IF config.baseUrl # <<>> /\ ~StartsWith(r.url, HTTP)
             THEN config.baseUrl \o r.url
             ELSE r.url
      parsed == UrlParse(u)
  IN [r EXCEPT !.url = u,
               !.path = parsed.pathname,
               !.baseUrl = Str(Interpolate(parsed.protocol) \o <<"/", "/">> \o Interpolate(parsed.host))]

Placeholder(name) == <<"{">> \o name \o <<"}">>

\* the loop over Object.keys(request.pathParams), in property order
RECURSIVE ReplacePathParams(_, _)
ReplacePathParams(u, ps) ==
  IF ps = <<>> THEN u
  ELSE ReplacePathParams(Replace(u, Placeholder(ps[1][1]), ps[1][2]), Tail(ps))

setPathParams(r) ==
  IF Truthy(r.pathParams)
    THEN [r EXCEPT !.url = ReplacePathParams(r.url, r.pathParams.o)]
    ELSE r

setQueryParams(r) ==
  LET query == getPlainQuery(r.queryParams)
  IN IF query # <<>> THEN [r EXCEPT !.url = r.url \o <<"?">> \o query] ELSE r

setHeaders(r) ==
  IF Cardinality(DOMAIN config.headers) > 0
    THEN LET own == IF ~Truthy(r.headers) THEN NoHeaders ELSE r.headers.o
             added == {prop \in DOMAIN config.headers : ~In(prop, own)}
         IN [r EXCEPT !.headers =
               Obj([k \in DOMAIN own \cup added |->
                      IF k \in DOMAIN own THEN own[k] ELSE config.headers[k]])]
    ELSE r

setBody(r) ==
  LET r1 == IF Truthy(r.data) THEN [r EXCEPT !.body = r.data] ELSE r
      r2 == IF Truthy(r1.body) THEN [r1 EXCEPT !.data = r1.body] ELSE r1
      bodyType == TypeOf(r2.body)
  IN IF bodyType = "number" \/ bodyType = "boolean"
       THEN [r2 EXCEPT !.data = toString(r2.body)]
       ELSE r2

\* multipart headers merged like the default headers: existing keys are kept
setMultiPartFormDataKeepingHeaders(r) ==
  IF Truthy(r.multiPartFormData)
    THEN LET multiPartHeaders == getHeaders(r.multiPartFormData)
             own == IF ~Truthy(r.headers) THEN NoHeaders ELSE r.headers.o
         IN [r EXCEPT !.data = getBuffer(r.multiPartFormData),
                      !.headers =
                        Obj([k \in DOMAIN own \cup DOMAIN multiPartHeaders |->
                               IF k \in DOMAIN own THEN own[k] ELSE multiPartHeaders[k]]),
                      !.multiPartFormData = Undefined]
    ELSE r

setMultiPartFormData(r) ==
  IF Truthy(r.multiPartFormData)
    THEN LET multiPartHeaders == getHeaders(r.multiPartFormData)
             own == IF ~Truthy(r.headers) THEN NoHeaders ELSE r.headers.o
         IN [r EXCEPT !.data = getBuffer(r.multiPartFormData),
                      !.headers =
                        Obj([k \in DOMAIN own \cup DOMAIN multiPartHeaders |->
                               IF k \in DOMAIN multiPartHeaders THEN multiPartHeaders[k] ELSE own[k]]),
                      !.multiPartFormData = Undefined]
    ELSE r

\* the default applied without looking at what the spec set
setFollowRedirectsAlways(r) ==
  IF config.followRedirects
    THEN [r EXCEPT !.followRedirects = Bool(config.followRedirects)]
    ELSE r

setFollowRedirects(r) ==
  IF config.followRedirects /\ TypeOf(r.followRedirects) = "undefined"
    THEN [r EXCEPT !.followRedirects = Bool(config.followRedirects)]
    ELSE r

setTimeout(r) ==
  [r EXCEPT !.timeout = IF Truthy(r.timeout) THEN r.timeout ELSE Num(config.timeout)]

\* No statement of process throws for a request whose url is a string: url.parse
\* answers null for the parts it does not find.
processError(r) == "none"

\* the query string appended before the path parameters are substituted
processQueryFirst(r) ==
  setTimeout(setFollowRedirects(setMultiPartFormData(setBody(setHeaders(
    setPathParams(setQueryParams(setBaseUrl(processData(r)))))))))

process(r) ==
  setTimeout(setFollowRedirects(setMultiPartFormData(setBody(setHeaders(
    setQueryParams(setPathParams(setBaseUrl(processData(r)))))))))

\* setHeaders handing the shared default headers object to the request
headersObjectShared(r, cur) ==
  LET afterSet == IF Cardinality(DOMAIN config.headers) > 0 /\ ~Truthy(r.headers) THEN "config" ELSE cur
  IN IF Truthy(r.multiPartFormData) /\ ~Truthy(setHeaders(r).headers) THEN "form" ELSE afterSet

\* The object request.headers refers to after process, cur being the one before:
\* setHeaders makes a new object when the request has none, setMultiPartFormData
\* hands over the form's own headers object when the request still has none.
headersObject(r, cur) ==
  LET afterSet == IF Cardinality(DOMAIN config.headers) > 0 /\ ~Truthy(r.headers) THEN "new" ELSE cur
  IN IF Truthy(r.multiPartFormData) /\ ~Truthy(setHeaders(r).headers) THEN "form" ELSE afterSet

\* config.request after process: process assigns to properties of request only,
\* so the defaults change only if request.headers is the defaults' own object.
configAfter(r, obj) ==
  [config EXCEPT !.headers = IF obj = "config" THEN process(r).headers.o ELSE @]

(***************************************************************************)
(* The Retry Controller.  A response is named by the number of the attempt *)
(* that received it; 0 stands for no response.                             *)
(***************************************************************************)
RetryIdle(count, delayMs) ==
  [state |-> "Idle", count |-> count, delayMs |-> delayMs, attempts |-> 0, inFlight |-> 0,
   waited |-> 0, response |-> 0, final |-> 0, evaluations |-> 0, lastDecision |-> FALSE,
   allTrue |-> TRUE, error |-> "none"]

\* a budget that counts attempts instead of retries
budgetLeftCountingAttempts(rt) == rt.attempts < rt.count

\* a retry is left while fewer than count retries were made
budgetLeft(rt) == rt.attempts - 1 < rt.count

\* a controller that retries when the strategy says no
decideInverted(rt, again) ==
  LET seen == [rt EXCEPT !.evaluations = @ + 1, !.lastDecision = again,
                         !.allTrue = @ /\ again]
  IN IF again
       THEN [seen EXCEPT !.state = "Succeeded", !.final = rt.response]
       ELSE IF budgetLeft(rt)
              THEN [seen EXCEPT !.state = "Retrying", !.waited = 0]
              ELSE [seen EXCEPT !.state = "Exhausted", !.final = rt.response]

\* Evaluating: the strategy's answer decides between Succeeded, Retrying and Exhausted
decide(rt, again) ==
  LET seen == [rt EXCEPT !.evaluations = @ + 1, !.lastDecision = again,
                         !.allTrue = @ /\ again]
  IN IF ~again
       THEN [seen EXCEPT !.state = "Succeeded", !.final = rt.response]
       ELSE IF budgetLeft(rt)
              THEN [seen EXCEPT !.state = "Retrying", !.waited = 0]
              ELSE [seen EXCEPT !.state = "Exhausted", !.final = rt.response]

\* a delay that any elapsed time satisfies
delayElapsedAtOnce(rt) == rt.waited >= 0

\* Retrying: the whole delay has been waited
delayElapsed(rt) == rt.waited = rt.delayMs

(***************************************************************************)
(* The requests and the configurations the model draws from.               *)
(***************************************************************************)
UrlPlain == <<"/", "a">>  \* /a
UrlOne == <<"/", "a", "/", "{", "i", "}">>  \* /a/{i}
UrlTwice == <<"/", "{", "i", "}", "/", "{", "i", "}">>  \* /{i}/{i}
UrlUndeclared == <<"/", "{", "i", "}", "/", "{", "k", "}">>  \* /{i}/{k}
UrlAbs == <<"h", "t", "t", "p", ":", "/", "/", "h", "/", "a">>  \* http://h/a
UrlAbsOne == <<"h", "t", "t", "p", ":", "/", "/", "h", "/", "{", "i", "}">>  \* http://h/{i}
UrlAbsTwo == <<"h", "t", "t", "p", "s", ":", "/", "/", "h", "/", "{", "i", "}", "/", "{", "j", "}">>  \* https://h/{i}/{j}
UrlUpper == <<"H", "T", "T", "P", ":", "/", "/", "h", "/", "a">>  \* HTTP://h/a
UrlHttpx == <<"h", "t", "t", "p", "x", "/", "a">>  \* httpx/a
BaseNone == <<>>  \* no base URL configured
BaseHost == <<"h", "t", "t", "p", ":", "/", "/", "b">>  \* http://b
BaseSlash == <<"h", "t", "t", "p", ":", "/", "/", "b", "/">>  \* http://b/
UrlQuery == <<"/", "a", "?", "x", "=", "1">>  \* /a?x=1
Urls == {UrlPlain, UrlOne, UrlTwice, UrlUndeclared, UrlAbs, UrlAbsOne, UrlAbsTwo, UrlUpper, UrlHttpx}
BaseToken == <<"h", "t", "t", "p", ":", "/", "/", "b", "/", "{", "i", "}">>  \* http://b/{i}
BaseUrls == {BaseNone, BaseHost, BaseSlash, BaseToken}

\* path parameters: an object whose properties are kept in insertion order
ParamI == <<<<"i">>, <<"1">>>>
ParamJ == <<<<"j">>, <<"2", "3">>>>
PathParamSets ==
  {Undefined, Obj(<<>>), Obj(<<ParamI>>), Obj(<<ParamJ>>), Obj(<<ParamI, ParamJ>>), Obj(<<ParamJ, ParamI>>)}
ParamNames == {<<"i">>, <<"j">>, <<"k">>}

QueryParamSets ==
  {Undefined, Obj(<<>>), Obj(<<<<<<"q">>, <<"1">>>>>>), Obj(<<<<<<"q">>, <<"{", "i", "}">>>>, <<<<"r">>, <<"2">>>>>>)}

HeaderKeys == {"content-type", "Content-Type", "x-a", "constructor"}
HeaderMaps(values) == UNION {[K -> values] : K \in SUBSET HeaderKeys}
SpecHeaderSets == {Undefined} \cup {Obj(h) : h \in HeaderMaps({"s1", "s2"})}
DefaultHeaderSets == HeaderMaps({"d1"})

JsonUser == [k \in {"Name"} |-> Str(<<"A">>)]
TemplateRef ==
  [k \in {TEMPLATE, OVERRIDES} |-> IF k = TEMPLATE THEN "User:New" ELSE [a \in {"Age"} |-> Num(30)]]
\* a reference with no overrides, and one whose overrides add a key
TemplateRefPlain == [k \in {TEMPLATE} |-> "User:New"]
TemplateRefAdding ==
  [k \in {TEMPLATE, OVERRIDES} |->
     IF k = TEMPLATE THEN "User:New"
     ELSE [a \in {"Age", "House"} |-> IF a = "Age" THEN Num(30) ELSE Str(<<"W">>)]]
TemplateRefs == {TemplateRef, TemplateRefPlain, TemplateRefAdding}
Payloads ==
  {Undefined, Num(0), Num(5), Bool(FALSE), Bool(TRUE), Str(<<>>), Str(<<"A">>), Str(<<"B">>),
   Obj(JsonUser)} \cup {Obj(ref) : ref \in TemplateRefs}

MultiPartSets == {Undefined, FormData("b1")}
FollowSets == {Undefined, Bool(FALSE), Bool(TRUE)}
TimeoutSets == {Undefined} \cup {Num(n) : n \in 0..MaxTimeout}
DefaultTimeouts == {DefaultTimeout} \cup (1..MaxTimeout)

InitRequestWith(U, PP, Q, H, D, B, MP, FR, T, CB, CH, CFR, CT) ==
  /\ config \in [baseUrl : CB, headers : CH, followRedirects : CFR, timeout : CT]
  /\ spec \in [url : U, path : {Undefined}, baseUrl : {Undefined}, pathParams : PP,
               queryParams : Q, headers : H, data : D, body : B,
               multiPartFormData : MP, followRedirects : FR, timeout : T]
  /\ request = spec
  /\ lastSet \in {f \in {"data", "body"} : spec[f] # Undefined}
                   \cup {f \in {"none"} : spec.data = Undefined \/ spec.body = Undefined}
  /\ raised = "none"
  /\ runs = 0
  /\ headersObj = (IF spec.headers = Undefined THEN "none" ELSE "spec")

\* a request to assemble; its Retry Controller is not started
InitWith(U, PP, Q, H, D, B, MP, FR, T, CB, CH, CFR, CT) ==
  /\ InitRequestWith(U, PP, Q, H, D, B, MP, FR, T, CB, CH, CFR, CT)
  /\ retry = RetryIdle(0, 0)

\* requests that differ in their URL, path parameters and query parameters
Init ==
  InitWith(Urls, PathParamSets, QueryParamSets, {Undefined}, {Undefined}, {Undefined},
           {Undefined}, {Undefined}, {Undefined},
           BaseUrls, {NoHeaders}, {FALSE}, {DefaultTimeout})

\* requests whose URL may carry a query string of its own
InitQuery ==
  InitWith(Urls \cup {UrlQuery}, {Undefined, Obj(<<ParamI>>)}, QueryParamSets, {Undefined}, {Undefined},
           {Undefined}, {Undefined}, {Undefined}, {Undefined},
           BaseUrls, {NoHeaders}, {FALSE}, {DefaultTimeout})

\* requests that differ in their headers
InitHeaders ==
  InitWith({UrlAbs}, {Undefined}, {Undefined}, SpecHeaderSets, {Undefined}, {Undefined},
           {Undefined}, {Undefined}, {Undefined},
           {BaseNone}, DefaultHeaderSets, {FALSE}, {DefaultTimeout})

\* requests that differ in their headers, their payload and their multipart form
InitMultiPart ==
  InitWith({UrlAbs}, {Undefined}, {Undefined}, SpecHeaderSets, {Undefined, Str(<<"A">>)}, {Undefined},
           MultiPartSets, {Undefined}, {Undefined},
           {BaseNone}, DefaultHeaderSets, {FALSE}, {DefaultTimeout})

\* requests that differ in their payload
InitBody ==
  InitWith({UrlAbs}, {Undefined}, {Undefined}, {Undefined}, Payloads, Payloads,
           MultiPartSets, {Undefined}, {Undefined},
           {BaseNone}, {NoHeaders}, {FALSE}, {DefaultTimeout})

\* requests that differ in their timeout and redirect settings
InitDefaults ==
  InitWith({UrlAbs, UrlPlain}, {Undefined}, {Undefined}, {Undefined}, {Undefined}, {Undefined},
           {Undefined}, FollowSets, TimeoutSets,
           {BaseHost}, {NoHeaders}, BOOLEAN, DefaultTimeouts)

\* requestProcessor.process(request), applied to the request object
Process ==
  /\ runs < MaxRuns
  /\ request' = process(request)
  /\ raised' = processError(request)
  /\ runs' = runs + 1
  /\ headersObj' = headersObject(request, headersObj)
  /\ config' = configAfter(request, headersObj')
  /\ UNCHANGED <<spec, lastSet, retry>>

Next == Process

Spec == Init /\ [][Next]_vars
SpecQuery == InitQuery /\ [][Next]_vars
SpecHeaders == InitHeaders /\ [][Next]_vars
SpecMultiPart == InitMultiPart /\ [][Next]_vars
SpecBody == InitBody /\ [][Next]_vars
SpecDefaults == InitDefaults /\ [][Next]_vars

(***************************************************************************)
(* The Retry Controller's steps.                                           *)
(***************************************************************************)
RequestVars == <<config, spec, request, lastSet, raised, runs, headersObj>>

\* one request, and every retry policy within the bounds
InitRetry ==
  /\ InitRequestWith({UrlAbs}, {Undefined}, {Undefined}, {Undefined}, {Undefined}, {Undefined},
                     {Undefined}, {Undefined}, {Undefined},
                     {BaseNone}, {NoHeaders}, {FALSE}, {DefaultTimeout})
  /\ retry \in {RetryIdle(count, delayMs) : count \in 0..MaxCount, delayMs \in 0..MaxDelay}

\* Idle -> Attempting: the first attempt is dispatched
Dispatch ==
  /\ retry.state = "Idle"
  /\ retry' = [retry EXCEPT !.state = "Attempting", !.attempts = 1, !.inFlight = @ + 1]
  /\ UNCHANGED RequestVars

\* Attempting -> Evaluating: the transport resolves with a response
Respond ==
  /\ retry.state = "Attempting"
  /\ retry' = [retry EXCEPT !.state = "Evaluating", !.inFlight = @ - 1, !.response = retry.attempts]
  /\ UNCHANGED RequestVars

\* Attempting -> Failed: the transport fails or times out; the error propagates
TransportFail ==
  /\ retry.state = "Attempting"
  /\ retry' = [retry EXCEPT !.state = "Failed", !.inFlight = @ - 1, !.error = "TransportError"]
  /\ UNCHANGED RequestVars

\* Evaluating: the strategy predicate is asked whether to retry
Evaluate ==
  /\ retry.state = "Evaluating"
  /\ \E again \in BOOLEAN : retry' = decide(retry, again)
  /\ UNCHANGED RequestVars

\* Retrying: time passes
Wait ==
  /\ retry.state = "Retrying"
  /\ retry.waited < retry.delayMs
  /\ retry' = [retry EXCEPT !.waited = @ + 1]
  /\ UNCHANGED RequestVars

\* Retrying -> Attempting: the next attempt is dispatched
Reattempt ==
  /\ retry.state = "Retrying"
  /\ delayElapsed(retry)
  /\ retry' = [retry EXCEPT !.state = "Attempting", !.attempts = @ + 1, !.inFlight = @ + 1]
  /\ UNCHANGED RequestVars

NextRetry == Dispatch \/ Respond \/ TransportFail \/ Evaluate \/ Wait \/ Reattempt

SpecRetry == InitRetry /\ [][NextRetry]_vars
SpecRetryFair == SpecRetry /\ WF_vars(NextRetry)

(***************************************************************************)
(* The claims.  The canonical request is the request after the first call  *)
(* of process; spec is the request as it was before that call.             *)
(***************************************************************************)
Canonical == runs = 1

OwnHeaders(r) == IF r.headers.t = "object" THEN r.headers.o ELSE NoHeaders

\* C1: every header the spec declared keeps the spec's value in the canonical
\* request, and every default header whose key the spec did not declare is in
\* the canonical request with the default's value.
C1_HeaderMerge ==
  Canonical =>
    /\ \A k \in DOMAIN OwnHeaders(spec) :
         k \in DOMAIN OwnHeaders(request) /\ OwnHeaders(request)[k] = OwnHeaders(spec)[k]
    /\ \A k \in DOMAIN config.headers \ DOMAIN OwnHeaders(spec) :
         k \in DOMAIN OwnHeaders(request) /\ OwnHeaders(request)[k] = config.headers[k]

\* C2: a timeout the spec set (any non-negative number of milliseconds) is the
\* canonical request's timeout, and the default is applied only when the spec
\* set none.
C2_TimeoutDefault ==
  Canonical =>
    IF spec.timeout # Undefined
      THEN request.timeout = spec.timeout
      ELSE request.timeout = Num(config.timeout)

\* C3 as stated: followRedirects keeps the value the spec set, and equals the
\* process-wide default when the spec set none.
C3_FollowRedirectsEqualsDefault ==
  Canonical =>
    IF spec.followRedirects # Undefined
      THEN request.followRedirects = spec.followRedirects
      ELSE request.followRedirects = Bool(config.followRedirects)

\* C3 as amended: followRedirects keeps the value the spec set (true or false);
\* when the spec set none it becomes true if the process-wide default is true
\* and stays unset (undefined) if the default is false.
C3_FollowRedirectsDefault ==
  Canonical =>
    IF spec.followRedirects # Undefined
      THEN request.followRedirects = spec.followRedirects
      ELSE request.followRedirects = (IF config.followRedirects THEN Bool(TRUE) ELSE Undefined)

C3_Witness ==
  /\ Canonical
  /\ spec.followRedirects = Undefined
  /\ config.followRedirects
  /\ request.followRedirects = Bool(TRUE)

\* the URL up to the query separator
PathPart(u) == SubSeq(u, 1, FirstOf(u, 1, {"?"}) - 1)

\* an absolute URL names its scheme: scheme characters, then "://"
Absolute(u) ==
  LET c == IndexOf(u, <<":", "/", "/">>)
  IN c > 1 /\ \A i \in 1..(c - 1) : u[i] \in SchemeChars

\* the number of times p occurs in s
RECURSIVE Count(_, _)
Count(s, p) ==
  LET i == IndexOf(s, p)
  IN IF i = 0 THEN 0 ELSE 1 + Count(SubSeq(s, i + Len(p), Len(s)), p)

\* the path parameters the spec declared, as <<name, value>> pairs
Declared == IF spec.pathParams.t = "object" THEN {spec.pathParams.o[i] : i \in DOMAIN spec.pathParams.o} ELSE {}
DeclaredNames == {p[1] : p \in Declared}

\* C4: with a base URL configured, the canonical URL starts with the base URL,
\* once, exactly when the spec's URL is not absolute.
C4_BaseUrlPrefix ==
  Canonical /\ config.baseUrl # <<>> =>
    IF Absolute(spec.url)
      THEN ~StartsWith(request.url, config.baseUrl)
      ELSE /\ StartsWith(request.url, config.baseUrl \o SubSeq(spec.url, 1, 1))
           /\ ~StartsWith(SubSeq(request.url, Len(config.baseUrl) + 1, Len(request.url)), config.baseUrl)

\* C5: the canonical URL, up to its query string, holds no {name} token of a
\* declared path parameter, however often the token occurred.
C5_EveryTokenReplaced ==
  Canonical => \A n \in DeclaredNames : IndexOf(PathPart(request.url), Placeholder(n)) = 0

\* the parts url.parse could not find in the URL are null
Unparsable(u) ==
  \/ UrlParse(u).protocol = Null
  \/ UrlParse(u).host = Null
  \/ UrlParse(u).pathname = Null

\* C6: a URL that, after base-URL prefixing, does not parse into protocol, host
\* and path makes process raise InvalidUrlError instead of returning a request.
C6_InvalidUrlRaises ==
  Canonical /\ Unparsable(setBaseUrl(spec).url) => raised = "InvalidUrlError"

\* the URLs the substitution can have started from: the spec's, prefixed or not
Unsubstituted == {spec.url, config.baseUrl \o spec.url}

\* C7: process raises nothing; when no declared path parameter has its {name}
\* token in the URL the URL is left as it was, the value of such a parameter
\* appears nowhere in it, and the {name} tokens of undeclared names are all
\* still there.
C7_UnmatchedIgnored ==
  Canonical =>
    /\ raised = "none"
    /\ \E u \in Unsubstituted :
         /\ (\A p \in Declared : IndexOf(u, Placeholder(p[1])) = 0) => PathPart(request.url) = u
         /\ \A p \in Declared :
              IndexOf(u, Placeholder(p[1])) = 0 => IndexOf(PathPart(request.url), p[2]) = 0
         /\ \A n \in ParamNames \ DeclaredNames :
              Count(PathPart(request.url), Placeholder(n)) = Count(u, Placeholder(n))

C7_Witness ==
  /\ Canonical
  /\ spec.url = UrlUndeclared
  /\ spec.pathParams = Obj(<<ParamJ>>)
  /\ config.baseUrl = BaseHost
  /\ request.url = BaseHost \o UrlUndeclared
  /\ raised = "none"

\* the payload a field holds once its template references are resolved
Payload(f) == ResolveData(spec[f])

BothSet == spec.multiPartFormData = Undefined /\ spec.data # Undefined /\ spec.body # Undefined

\* C8: with no multipart form, when data and body were both set, the one set
\* last is the request's payload after normalization.
C8_LastSetWins ==
  Canonical /\ BothSet => request.body = Payload(lastSet)

\* C8, second half: when data and body were both set, the two fields hold the
\* same payload after normalization, for every kind of payload.
C8_InSync ==
  Canonical /\ BothSet => request.data = request.body

\* the string form of the scalars the model draws
StringForm(v) ==
  CASE v = Num(0) -> Str(<<"0">>)
    [] v = Num(5) -> Str(<<"5">>)
    [] v = Bool(FALSE) -> Str(<<"f", "a", "l", "s", "e">>)
    [] v = Bool(TRUE) -> Str(<<"t", "r", "u", "e">>)

IsScalar(v) == v.t \in {"number", "boolean"}

\* C9: a number or boolean payload, supplied through data or through body, is
\* sent (data) as its string form.
C9_ScalarStringified ==
  Canonical /\ spec.multiPartFormData = Undefined =>
    /\ (IsScalar(spec.body) /\ spec.data = Undefined => request.data = StringForm(spec.body))
    /\ (IsScalar(spec.data) /\ spec.body = Undefined => request.data = StringForm(spec.data))

C11_DefaultsNotShared ==
  [](headersObj # "config") /\ [][config' = config]_vars

C11_Witness ==
  /\ runs = MaxRuns
  /\ spec.headers = Undefined
  /\ spec.multiPartFormData # Undefined
  /\ "content-type" \in DOMAIN config.headers
  /\ config.headers["content-type"] = "d1"
  /\ request.headers.o["content-type"] = "multipart/form-data; boundary=b1"
  /\ headersObj = "new"

Terminal == retry.state \in {"Succeeded", "Exhausted", "Failed"}

\* what holds of the attempts made under a policy with count = N
RetryBudget ==
  /\ retry.attempts <= retry.count + 1
  /\ retry.state = "Exhausted" =>
       /\ retry.allTrue
       /\ retry.attempts = retry.count + 1
       /\ retry.final = retry.attempts
       /\ retry.error = "none"
  /\ retry.allTrue /\ Terminal /\ retry.error = "none" => retry.state = "Exhausted"

\* C12: with count = N and a strategy that answers true every time, the
\* controller makes exactly N + 1 attempts, ends in Exhausted with the last
\* attempt's response as the final response and no error, and does end
\* (or fails with the transport's error).
C12_RetryTermination ==
  []RetryBudget /\ <>Terminal /\ [][retry.state = "Exhausted" => retry' = retry]_vars

C12_Witness ==
  /\ retry.state = "Exhausted"
  /\ retry.count = 2
  /\ retry.attempts = 3
  /\ retry.final = 3

\* what holds once the strategy has answered false
ShortCircuit ==
  /\ retry.state = "Succeeded" =>
       /\ ~retry.lastDecision
       /\ retry.final = retry.response
       /\ retry.response = retry.attempts
       /\ retry.inFlight = 0
  /\ retry.state = "Succeeded" /\ retry.evaluations = 1 => retry.attempts = 1

\* the strategy has just answered false
AnsweredFalse == retry'.evaluations = retry.evaluations + 1 /\ ~retry'.lastDecision

\* C13: when the strategy answers false the controller moves to Succeeded,
\* that attempt's response is final and no further attempt is made; a false
\* answer on the first attempt means exactly one attempt, whatever the policy.
C13_ShortCircuit ==
  /\ []ShortCircuit
  /\ [][AnsweredFalse => retry'.state = "Succeeded" /\ retry'.final = retry.response]_vars
  /\ [][retry.state = "Succeeded" => retry' = retry]_vars

C13_Witness ==
  /\ retry.state = "Succeeded"
  /\ retry.evaluations = 1
  /\ retry.attempts = 1
  /\ retry.count = MaxCount
  /\ retry.delayMs = MaxDelay
  /\ retry.final = 1

\* an attempt has just been dispatched
AttemptStarts == retry'.attempts > retry.attempts

\* C14: at most one attempt is in flight; an attempt after the first starts
\* only from Retrying, with the previous response evaluated and the whole
\* delay waited.
C14_Sequential ==
  /\ [](retry.inFlight <= 1)
  /\ [][AttemptStarts =>
          /\ retry.inFlight = 0
          /\ retry'.attempts = retry.attempts + 1
          /\ retry.attempts > 0 =>
               /\ retry.state = "Retrying"
               /\ retry.evaluations = retry.attempts
               /\ retry.waited = retry.delayMs]_vars

C14_Witness ==
  /\ retry.state = "Attempting"
  /\ retry.attempts = 2
  /\ retry.delayMs = MaxDelay
  /\ retry.waited = MaxDelay
  /\ retry.inFlight = 1

\* the body is one of the template references, and nothing else sets the payload
BodyIsRef(ref) ==
  /\ spec.body = Obj(ref)
  /\ spec.data = Undefined
  /\ spec.multiPartFormData = Undefined

OverridesOf(ref) == IF OVERRIDES \in DOMAIN ref THEN ref[OVERRIDES] ELSE [k \in {} |-> Undefined]

\* C15: a body that is a template reference with overrides is assembled to the
\* template's value, each override key holding the override's value and every
\* other template key its own; the reference markers are not in it.  Template
\* {Name: Jon, Age: 26} with overrides {Age: 30} gives {Name: Jon, Age: 30}.
C15_OverridesThroughAssembly ==
  Canonical =>
    /\ \A ref \in TemplateRefs :
         BodyIsRef(ref) =>
           LET tpl == Templates[ref[TEMPLATE]]
               ov == OverridesOf(ref)
           IN /\ request.body.t = "object"
              /\ DOMAIN request.body.o = DOMAIN tpl \cup DOMAIN ov
              /\ \A k \in DOMAIN ov : request.body.o[k] = ov[k]
              /\ \A k \in DOMAIN tpl \ DOMAIN ov : request.body.o[k] = tpl[k]
              /\ TEMPLATE \notin DOMAIN request.body.o
              /\ OVERRIDES \notin DOMAIN request.body.o
              /\ request.data = request.body
    /\ BodyIsRef(TemplateRef) =>
         request.body = Obj([k \in {"Name", "Age"} |-> IF k = "Name" THEN Str(<<"J", "o", "n">>) ELSE Num(30)])

C15_Witness ==
  /\ Canonical
  /\ BodyIsRef(TemplateRef)
  /\ request.body.o["Age"] = Num(30)
  /\ request.body.o["Name"] = Str(<<"J", "o", "n">>)

EndsWith(s, p) == Len(s) >= Len(p) /\ SubSeq(s, Len(s) - Len(p) + 1, Len(s)) = p

\* the base URL is prepended to the spec's URL
Prefixed == config.baseUrl # <<>> /\ ~StartsWith(spec.url, HTTP)

\* C16: path parameters are substituted after the base URL is prepended and
\* before the query string is appended: the canonical URL ends with the query
\* string as serialized, {name} tokens of declared names included, and a
\* {name} token the base URL brought is replaced by the parameter's value.
C16_StepOrder ==
  Canonical =>
    /\ getPlainQuery(spec.queryParams) # <<>> =>
         EndsWith(request.url, <<"?">> \o getPlainQuery(spec.queryParams))
    /\ \A p \in Declared :
         Prefixed /\ IndexOf(config.baseUrl, Placeholder(p[1])) > 0 =>
           StartsWith(request.url,
             SubSeq(config.baseUrl, 1, IndexOf(config.baseUrl, Placeholder(p[1])) - 1) \o p[2])

C16_Witness ==
  /\ Canonical
  /\ config.baseUrl = BaseToken
  /\ spec.url = UrlPlain
  /\ spec.pathParams = Obj(<<ParamI>>)
  /\ request.url = <<"h", "t", "t", "p", ":", "/", "/", "b", "/", "1", "/", "a",
                     "?", "q", "=", "{", "i", "}", "&", "r", "=", "2">>

\* the URL as it is when the query parameters are serialized
Substituted == setPathParams(setBaseUrl(processData(spec))).url

\* C17: with no query parameters, or with an empty serialization, the URL is
\* left as substituted; otherwise the canonical URL is the substituted URL, a
\* "?" and the serialized query string, and holds exactly one "?".
C17_QuerySerialization ==
  Canonical =>
    IF getPlainQuery(spec.queryParams) = <<>>
      THEN request.url = Substituted
      ELSE /\ request.url = Substituted \o <<"?">> \o getPlainQuery(spec.queryParams)
           /\ Count(request.url, <<"?">>) = 1

\* C17 without its last clause: the canonical URL is the substituted URL,
\* followed by "?" and the query string when there is one.
C17_QueryAppended ==
  Canonical =>
    request.url = Substituted \o
      (IF getPlainQuery(spec.queryParams) = <<>> THEN <<>>
       ELSE <<"?">> \o getPlainQuery(spec.queryParams))

\* C18: the canonical request's baseUrl and path are the protocol and host and
\* the path of the URL it is sent to.
C18_LocationConsistent ==
  Canonical =>
    /\ request.path = UrlParse(request.url).pathname
    /\ request.baseUrl =
         Str(Interpolate(UrlParse(request.url).protocol) \o <<"/", "/">>
             \o Interpolate(UrlParse(request.url).host))

\* C19: process applied to a request that process produced gives back an
\* equal request; its URL in particular is the same.
C19_Idempotent ==
  runs >= 1 => process(request) = request

\* C19, the URL alone: it is neither prefixed nor given a query string again.
C19_UrlStable ==
  runs >= 1 => process(request).url = request.url

====
